---- MODULE Spec2Model ----
(***************************************************************************)
(* A model of pman: the encrypted store (CryptIOBroker.py) and the record  *)
(* table built on it (pass.py).                                            *)
(*                                                                         *)
(* Text is a sequence of Unicode code points, a byte string a sequence of  *)
(* byte cells <<b>>.  The cryptographic primitives are ideal: PBKDF2 is a  *)
(* key determined by, and determining, (password bytes, salt); Fernet's    *)
(* HMAC is a tag determined by, and determining, (key, iv, ciphertext);    *)
(* os.urandom never returns the same bytes twice.                          *)
(***************************************************************************)
EXTENDS Integers, Sequences, FiniteSets, TLC

VARIABLES
    pc,          \* position of the running process
    fileExists,  \* whether the database path names a file
    file,        \* the bytes of that file
    password,    \* PasswordManager._password / the broker's password
    table,       \* PasswordManager._password_table
    dirty,       \* PasswordManager._dirty
    err,         \* the exception the last operation raised ("none" if none)
    broker,      \* the live 'w' mode CryptIOBroker: _salt, _engine, buffer
    entropy,     \* how many times os.urandom has been called
    today,       \* the day datetime.date.today() returns
    prior,       \* history: the file as write_updated_table found it
    sealedBy,    \* history: the password whose close() produced the file
    written,     \* history: the first SALT_LEN bytes of each blob close() wrote
    persisted,   \* history: the table write_updated_table last serialized
    lastCall,    \* history: the last update_matching_orgs call
    wlines,      \* selftest: the text written through the 'w' broker
    rlines       \* selftest: the lines read back through the 'r' broker

vars == <<pc, fileExists, file, password, table, dirty, err, broker, entropy,
          today, prior, sealedBy, written, persisted, lastCall, wlines, rlines>>

----------------------------------------------------------------------------
(* Bounds of the model *)

\* rows the in-memory table may hold
MaxRows == 2
\* calls of os.urandom a behaviour may make
MaxEntropy == 6
\* the last day the clock reaches
MaxDay == 1

----------------------------------------------------------------------------
(* Characters, text and bytes *)

LF == 10
CR == 13
delimiter == 44
quotechar == 34
\* _csv.c's end-of-line marker, handed to the parser after each line
EOL == -2
\* Python's None, where a text value is expected
PyNone == <<-1>>
NoneText == <<78,111,110,101>>

_SCHEMA ==
    << <<79,82,71,65,78,73,90,65,84,73,79,78>>, <<85,82,76>>,
       <<85,83,69,82,73,68>>, <<80,65,83,83,87,68>>,
       <<79,84,72,69,82,73,68,49>>, <<79,84,72,69,82,73,68,50>>,
       <<68,65,84,69>>, <<75,73,78,68>>, <<78,79,84,69,83>> >>

ORGANIZATION == 1
DATE == 7
NOTES == 9

\* the concatenation of ss[lo..hi], by halves
RECURSIVE FlattenRange(_, _, _)
FlattenRange(ss, lo, hi) ==
    IF lo > hi THEN <<>>
    ELSE IF lo = hi THEN ss[lo]
    ELSE LET mid == (lo + hi) \div 2
         IN  FlattenRange(ss, lo, mid) \o FlattenRange(ss, mid + 1, hi)

Flatten(ss) == FlattenRange(ss, 1, Len(ss))

\* str.encode('utf-8') of one code point below 2048
utf8_char(c) ==
    IF c < 128 THEN << <<c>> >>
    ELSE << <<192 + (c \div 64)>>, <<128 + (c % 64)>> >>

encode(text) == Flatten([i \in 1..Len(text) |-> utf8_char(text[i])])

\* bytes.decode('utf-8'): [ok, text]; ok is FALSE for UnicodeDecodeError.
\* A byte below 128 is a character, a lead byte 194..223 one with the
\* continuation byte 128..191 after it; any other byte is an error
decode(data) ==
    LET b(i) == data[i][1]
        cont(i) == i >= 1 /\ i <= Len(data) /\ b(i) >= 128 /\ b(i) < 192
        lead(i) == i >= 1 /\ i <= Len(data) /\ b(i) >= 194 /\ b(i) < 224
        good(i) == \/ b(i) < 128
                   \/ lead(i) /\ cont(i + 1)
                   \/ cont(i) /\ lead(i - 1)
    IN  IF \A i \in 1..Len(data) : good(i)
        THEN [ok |-> TRUE,
              text |-> Flatten([i \in 1..Len(data) |->
                         IF b(i) < 128 THEN <<b(i)>>
                         ELSE IF lead(i) THEN <<(b(i) - 192) * 64 + (b(i + 1) - 128)>>
                         ELSE <<>>])]
        ELSE [ok |-> FALSE, text |-> <<>>]

----------------------------------------------------------------------------
(* Key derivation and Fernet *)

SALT_LEN == 16

\* os.urandom(n), the k-th call
urandom(n, k) == [i \in 1..n |-> <<(k + i) % 256>>]

\* CryptIOBroker._getengine: the Fernet engine of the key PBKDF2 derives
getengine(pw, salt) == <<encode(pw), salt>>

RECURSIVE SumBytes(_)
SumBytes(data) == IF data = <<>> THEN 0 ELSE Head(data)[1] + SumBytes(Tail(data))

\* the key stream byte of an engine under an iv
Pad(engine, iv) == (SumBytes(engine[1]) + iv) % 256

\* a Fernet token: iv || ciphertext || HMAC
token(engine, iv, ct) == << <<iv>> >> \o ct \o << <<engine, iv, ct>> >>

\* Fernet.encrypt
encrypt(engine, data, iv) ==
    token(engine, iv, [i \in 1..Len(data) |-> <<(data[i][1] + Pad(engine, iv)) % 256>>])

\* a decrypt that does not verify the HMAC before it removes the key stream
decrypt_unverified(engine, bindata) ==
    IF Len(bindata) < 2 THEN [ok |-> FALSE, data |-> <<>>]
    ELSE IF Len(bindata[Len(bindata)]) # 3 \/ Len(bindata[1]) # 1
    THEN [ok |-> FALSE, data |-> <<>>]
    ELSE [ok |-> TRUE,
          data |-> [i \in 1..(Len(bindata) - 2) |->
                      <<(bindata[i + 1][1] + 256 - Pad(engine, bindata[1][1])) % 256>>]]

\* Fernet.decrypt: [ok, data]; ok is FALSE for InvalidToken
decrypt(engine, bindata) ==
    IF Len(bindata) < 2 THEN [ok |-> FALSE, data |-> <<>>]
    ELSE IF Len(bindata[Len(bindata)]) # 3 \/ Len(bindata[1]) # 1
    THEN [ok |-> FALSE, data |-> <<>>]
    ELSE IF bindata[Len(bindata)]
              # <<engine, bindata[1][1], SubSeq(bindata, 2, Len(bindata) - 1)>>
    THEN [ok |-> FALSE, data |-> <<>>]
    ELSE [ok |-> TRUE,
          data |-> [i \in 1..(Len(bindata) - 2) |->
                      <<(bindata[i + 1][1] + 256 - Pad(engine, bindata[1][1])) % 256>>]]

Min(a, b) == IF a < b THEN a ELSE b

\* super().__init__(contents.decode('utf-8')): the buffer of the 'r' broker
open_text(text) ==
    IF ~text.ok THEN [err |-> "UnicodeDecodeError", text |-> <<>>]
    ELSE [err |-> "none", text |-> text.text]

open_contents(contents) ==
    IF ~contents.ok THEN [err |-> "InvalidToken", text |-> <<>>]
    ELSE open_text(decode(contents.data))

\* CryptIOBroker.__init__ in 'r' mode on an existing file: the first SALT_LEN
\* bytes are the salt, the rest is decrypted.
\* [err, text], err "none", "InvalidToken" or "UnicodeDecodeError"
broker_open_r(pw, bytes) ==
    open_contents(
        decrypt(getengine(pw, SubSeq(bytes, 1, Min(SALT_LEN, Len(bytes)))),
                SubSeq(bytes, Min(SALT_LEN, Len(bytes)) + 1, Len(bytes))))

\* CryptIOBroker.__init__ in 'w' mode, with the salt os.urandom gave
broker_with_salt(pw, salt) ==
    [salt |-> salt, engine |-> getengine(pw, salt), buf |-> <<>>]

\* a 'w' broker with the one salt of every database, as secure.py has it
broker_fixed_salt(pw, k) == broker_with_salt(pw, urandom(SALT_LEN, 0))

broker_open_w(pw, k) == broker_with_salt(pw, urandom(SALT_LEN, k))

NoBroker == [salt |-> <<>>, engine |-> <<>>, buf |-> <<>>]

\* a close() that takes the code points of the buffer for its bytes
close_bindata_unencoded(b, iv) ==
    encrypt(b.engine, [i \in 1..Len(b.buf) |-> <<b.buf[i] % 256>>], iv)

\* what close() hands to the file: the salt, then the token
close_salt(b) == b.salt
close_bindata(b, iv) == encrypt(b.engine, encode(b.buf), iv)

----------------------------------------------------------------------------
(* csv.reader, excel dialect, QUOTE_MINIMAL, not strict *)

ReaderInit ==
    [state |-> "START_RECORD", fields |-> <<>>, field |-> <<>>,
     rows |-> <<>>, err |-> FALSE]

parse_save_field(st) == [st EXCEPT !.fields = Append(@, st.field), !.field = <<>>]

parse_add_char(st, c) == [st EXCEPT !.field = Append(@, c)]

\* one character in state START_FIELD
parse_start_field(st, c) ==
    IF c \in {LF, CR, EOL}
    THEN [parse_save_field(st) EXCEPT
            !.state = IF c = EOL THEN "START_RECORD" ELSE "EAT_CRNL"]
    ELSE IF c = quotechar THEN [st EXCEPT !.state = "IN_QUOTED_FIELD"]
    ELSE IF c = delimiter THEN [parse_save_field(st) EXCEPT !.state = "START_FIELD"]
    ELSE [parse_add_char(st, c) EXCEPT !.state = "IN_FIELD"]

\* _csv.c parse_process_char
parse_process_char(st, c) ==
    CASE st.state = "START_RECORD" ->
            IF c = EOL THEN st
            ELSE IF c \in {LF, CR} THEN [st EXCEPT !.state = "EAT_CRNL"]
            ELSE parse_start_field(st, c)
      [] st.state = "START_FIELD" -> parse_start_field(st, c)
      [] st.state = "IN_FIELD" ->
            IF c \in {LF, CR, EOL}
            THEN [parse_save_field(st) EXCEPT
                    !.state = IF c = EOL THEN "START_RECORD" ELSE "EAT_CRNL"]
            ELSE IF c = delimiter
            THEN [parse_save_field(st) EXCEPT !.state = "START_FIELD"]
            ELSE parse_add_char(st, c)
      [] st.state = "IN_QUOTED_FIELD" ->
            IF c = EOL THEN st
            ELSE IF c = quotechar THEN [st EXCEPT !.state = "QUOTE_IN_QUOTED_FIELD"]
            ELSE parse_add_char(st, c)
      [] st.state = "QUOTE_IN_QUOTED_FIELD" ->
            IF c = quotechar
            THEN [parse_add_char(st, c) EXCEPT !.state = "IN_QUOTED_FIELD"]
            ELSE IF c = delimiter
            THEN [parse_save_field(st) EXCEPT !.state = "START_FIELD"]
            ELSE IF c \in {LF, CR, EOL}
            THEN [parse_save_field(st) EXCEPT
                    !.state = IF c = EOL THEN "START_RECORD" ELSE "EAT_CRNL"]
            ELSE [parse_add_char(st, c) EXCEPT !.state = "IN_FIELD"]
      [] st.state = "EAT_CRNL" ->
            IF c \in {LF, CR} THEN st
            ELSE IF c = EOL THEN [st EXCEPT !.state = "START_RECORD"]
            ELSE [st EXCEPT !.err = TRUE]

\* the record is complete: Reader_iternext returns its fields
reader_emit(st) == [st EXCEPT !.rows = Append(@, st.fields), !.fields = <<>>]

\* the line is over: the parser is handed EOL, a complete record is returned
reader_eol(st) ==
    IF st.state = "START_RECORD" THEN reader_emit(st) ELSE st

reader_parsed(text, i, st) ==
    IF st.err \/ ~(text[i] = LF \/ i = Len(text)) THEN st
    ELSE reader_eol(parse_process_char(st, EOL))

\* Reader_iternext's work on text[i]: the character is parsed, and a line
\* ends at LF or with the buffer.  After _csv.Error nothing is read
reader_char(text, i, st) ==
    IF st.err THEN st ELSE reader_parsed(text, i, parse_process_char(st, text[i]))

\* the characters text[lo..hi] in order, by halves
RECURSIVE reader_range(_, _, _, _)
RECURSIVE reader_rest(_, _, _, _)
reader_range(text, lo, hi, st) ==
    IF lo > hi THEN st
    ELSE IF lo = hi THEN reader_char(text, lo, st)
    ELSE reader_rest(text, (lo + hi) \div 2 + 1, hi,
                     reader_range(text, lo, (lo + hi) \div 2, st))

reader_rest(text, lo, hi, left) ==
    IF left.err THEN left ELSE reader_range(text, lo, hi, left)

\* the input is exhausted: a record left open in a quoted field is returned
reader_end(st) ==
    IF ~st.err /\ (st.field # <<>> \/ st.state = "IN_QUOTED_FIELD")
    THEN reader_emit(parse_save_field(st))
    ELSE st

\* csv.reader(buffer) read to its end: rows are the records returned, err
\* says that _csv.Error was raised after them
csv_reader(text) == reader_end(reader_range(text, 1, Len(text), ReaderInit))

----------------------------------------------------------------------------
(* csv.DictReader and csv.DictWriter over _SCHEMA *)

NFields == Len(_SCHEMA)

\* DictReader.__next__: the dict of one non-empty row.  vals are the values of
\* the schema's keys (restval None for a short row), rest the list under the
\* key None (restkey) of a long row, <<>> when the dict has no such key
dict_of_row(row) ==
    [vals |-> [i \in 1..NFields |-> IF i <= Len(row) THEN row[i] ELSE PyNone],
     rest |-> IF Len(row) > NFields THEN SubSeq(row, NFields + 1, Len(row)) ELSE <<>>]

\* csv.writer's rendering of one field: None is written as the empty string
join_append(field) ==
    LET f == IF field = PyNone THEN <<>> ELSE field
        quoted == \E i \in 1..Len(f) : f[i] \in {delimiter, quotechar, CR, LF}
        body == Flatten([i \in 1..Len(f) |->
                           IF f[i] = quotechar THEN <<quotechar, quotechar>>
                           ELSE <<f[i]>>])
    IN  IF quoted THEN <<quotechar>> \o body \o <<quotechar>> ELSE body

\* csv.writer.writerow: the fields joined by the delimiter, then "\r\n"
writerow(fields) ==
    Flatten([i \in 1..Len(fields) |->
               IF i = 1 THEN join_append(fields[i])
               ELSE <<delimiter>> \o join_append(fields[i])]) \o <<CR, LF>>

\* DictWriter._dict_to_list: ValueError for a dict with a key not in fieldnames
dict_has_extras(row) == row.rest # <<>>

\* the rows written before the first one DictWriter.writerow refuses
RECURSIVE rows_until_extras(_, _)
rows_until_extras(rows, i) ==
    IF i > Len(rows) \/ dict_has_extras(rows[i]) THEN i - 1
    ELSE rows_until_extras(rows, i + 1)

\* a write_updated_table without writer.writeheader()
render_rows_headerless(rows, n) ==
    [err  |-> IF n < Len(rows) THEN "ValueError" ELSE "none",
     text |-> Flatten([i \in 1..n |-> writerow(rows[i].vals)])]

render_rows(rows, n) ==
    [err  |-> IF n < Len(rows) THEN "ValueError" ELSE "none",
     text |-> writerow(_SCHEMA) \o Flatten([i \in 1..n |-> writerow(rows[i].vals)])]

\* write_updated_table's writes into the broker: [err, text], text what the
\* buffer holds when the loop ends or raises
render_table(rows) == render_rows(rows, rows_until_extras(rows, 1))

\* for row in reader: DictReader skips the empty rows
dicts_of(rows) == [i \in 1..Len(rows) |-> dict_of_row(rows[i])]

table_of(r) ==
    dicts_of(SelectSeq(SubSeq(r.rows, 2, Len(r.rows)), LAMBDA row : row # <<>>))

\* load_database's work on what the reader gives: the first row is
\* reader.fieldnames
parse_rows(r) ==
    IF r.rows = <<>>
    THEN [err |-> IF r.err THEN "csv.Error" ELSE "AssertionError", table |-> <<>>]
    ELSE IF r.rows[1] # _SCHEMA THEN [err |-> "AssertionError", table |-> <<>>]
    ELSE [err |-> IF r.err THEN "csv.Error" ELSE "none", table |-> table_of(r)]

\* load_database's parse of the decrypted buffer: [err, table]
parse_table(text) == parse_rows(csv_reader(text))

----------------------------------------------------------------------------
(* re.compile(org_name, re.IGNORECASE).search, for patterns made of letters *)
(* and the anchor ^                                                        *)

CARET == 94

lower(c) == IF c >= 65 /\ c <= 90 THEN c + 32 ELSE c

RECURSIVE match_at(_, _, _, _)
match_at(pat, j, s, i) ==
    IF j > Len(pat) THEN TRUE
    ELSE IF pat[j] = CARET THEN i = 1 /\ match_at(pat, j + 1, s, i)
    ELSE i <= Len(s) /\ lower(s[i]) = lower(pat[j]) /\ match_at(pat, j + 1, s, i + 1)

re_search(pat, s) == \E i \in 1..(Len(s) + 1) : match_at(pat, 1, s, i)

\* an extract_record that counts the record before it tests it
extract_record_counted_first(rows, org_name) ==
    LET hit(i) == re_search(org_name, rows[i].vals[ORGANIZATION])
        RECURSIVE from(_)
        from(i) == IF i > Len(rows) THEN <<>>
                   ELSE IF hit(i) THEN <<i + 1>> \o from(i + 1) ELSE from(i + 1)
    IN  from(1)

\* PasswordManager.extract_record: the indices of the matching records, in order
extract_record(rows, org_name) ==
    LET hit(i) == re_search(org_name, rows[i].vals[ORGANIZATION])
        RECURSIVE from(_)
        from(i) == IF i > Len(rows) THEN <<>>
                   ELSE IF hit(i) THEN <<i>> \o from(i + 1) ELSE from(i + 1)
    IN  from(1)

\* datetime.date.today().isoformat() on day d: "2023-01-0d"
isoformat(d) == <<50,48,50,51,45,48,49,45,48, 48 + d>>

\* the placeholder record update_matching_orgs creates
placeholder(org_name, d) ==
    [vals |-> [i \in 1..NFields |->
                 IF i = ORGANIZATION THEN org_name
                 ELSE IF i = DATE THEN isoformat(d) ELSE NoneText],
     rest |-> <<>>]

\* _ask_user_and_update_record: the user declines (key 0) or overwrites one
\* field with a value; an empty value keeps the field
NoEdit == [key |-> 0, value |-> <<>>]

apply_edit(row, e) ==
    IF e.key = 0 \/ e.value = <<>> THEN row
    ELSE [row EXCEPT !.vals[e.key] = e.value]

edit_dirties(e) == e.key # 0 /\ e.value # <<>>

----------------------------------------------------------------------------
(* Inputs *)

Passwords == { <<112>>, <<113,233>> }

\* organization names given on the command line: "AB", "^a"
OrgNames == { <<65,66>>, <<94,97>> }

\* what the user types at the prompts
Edits == { NoEdit,
           [key |-> ORGANIZATION, value |-> <<99>>],
           [key |-> NOTES, value |-> <<>>] }

NoPw == <<-1>>

\* a database file sealed outside this behaviour
Seal(text, pw) ==
    urandom(SALT_LEN, 0) \o encrypt(getengine(pw, urandom(SALT_LEN, 0)), encode(text), 0)

HeaderText == writerow(_SCHEMA)

\* 'Ab,u,i,p,,,d,k,"n,""é"': a full row, one field quoted
FullRowText ==
    <<65,98,44,117,44,105,44,112,44,44,44,100,44,107,44,34,110,44,34,34,233,34,13,10>>
\* "Ab,u": a row of two fields
ShortRowText == <<65,98,44,117,13,10>>
\* "Ab,u,i,p,,,d,k,n,x": a row of ten fields
LongRowText == <<65,98,44,117,44,105,44,112,44,44,44,100,44,107,44,110,44,120,13,10>>
\* the header with its first two names swapped
BadHeaderText == writerow(<<_SCHEMA[2], _SCHEMA[1]>> \o SubSeq(_SCHEMA, 3, NFields))

\* the password that sealed the files found at the start
P1 == <<112>>

Sealed(text) == [exists |-> TRUE, bytes |-> Seal(text, P1), by |-> P1]

\* the database path at the start: no file, three stray bytes, or a sealed file
InitStores ==
    { [exists |-> FALSE, bytes |-> <<>>, by |-> NoPw],
      [exists |-> TRUE, bytes |-> << <<7>>, <<7>>, <<7>> >>, by |-> NoPw],
      Sealed(HeaderText \o FullRowText),
      Sealed(HeaderText \o ShortRowText),
      Sealed(HeaderText \o FullRowText \o LongRowText),
      Sealed(BadHeaderText \o FullRowText) }

----------------------------------------------------------------------------
(* PasswordManager *)

NoCall == [org |-> <<>>, org_list |-> <<>>, appended |-> FALSE]
NoStore == [exists |-> FALSE, bytes |-> <<>>]

InitWith(stores, pc0, k) ==
    /\ pc = pc0
    /\ \E s \in stores :
          /\ fileExists = s.exists
          /\ file = s.bytes
          /\ sealedBy = s.by
    /\ password = NoPw
    /\ table = <<>>
    /\ dirty = FALSE
    /\ err = "none"
    /\ broker = NoBroker
    /\ entropy = k
    /\ today = 0
    /\ prior = NoStore
    /\ written = <<>>
    /\ persisted = <<>>
    /\ lastCall = NoCall

Init ==
    /\ InitWith(InitStores, "start", 0)
    /\ wlines = <<>>
    /\ rlines = <<>>

selftest_vars == <<wlines, rlines>>

load_buffer(b) ==
    IF b.err # "none" THEN [err |-> b.err, table |-> <<>>] ELSE parse_table(b.text)

\* load_database: [err, table]
load_database(pw, bytes) == load_buffer(broker_open_r(pw, bytes))

persist_rendered(pw, rows, r) ==
    /\ entropy + 2 <= MaxEntropy
    /\ broker' = [broker_open_w(pw, entropy + 1) EXCEPT !.buf = r.text]
    /\ entropy' = entropy + 1
    /\ prior' = [exists |-> fileExists, bytes |-> file]
    /\ persisted' = rows
    /\ err' = r.err
    /\ pc' = "close"

\* write_updated_table up to broker.close(): the 'w' broker is built and the
\* table rendered into it; after a ValueError the broker is left to its
\* finalizer, which closes it
begin_persist(pw, rows) == persist_rendered(pw, rows, render_table(rows))

\* an __init__ that takes InvalidToken as it takes FileNotFoundError, and
\* creates the empty database
init_loaded_recreate(r) ==
    IF r.err = "InvalidToken"
    THEN /\ table' = <<>>
         /\ begin_persist(password', <<>>)
    ELSE /\ table' = r.table
         /\ err' = r.err
         /\ pc' = IF r.err = "none" THEN "ready" ELSE "exit"
         /\ UNCHANGED <<broker, entropy, prior, persisted>>

\* __init__ after load_database: the table, or the exception raised again
init_loaded(r) ==
    /\ table' = r.table
    /\ err' = r.err
    /\ pc' = IF r.err = "none" THEN "ready" ELSE "exit"
    /\ UNCHANGED <<broker, entropy, prior, persisted>>

\* PasswordManager.__init__
PM_init(pw) ==
    /\ pc = "start"
    /\ password' = pw
    /\ IF ~fileExists
       THEN /\ table' = <<>>
            /\ begin_persist(pw, <<>>)
       ELSE init_loaded(load_database(pw, file))
    /\ UNCHANGED <<fileExists, file, dirty, today, sealedBy, written, lastCall,
                   selftest_vars>>

in_list(org_list, i) == \E k \in 1..Len(org_list) : org_list[k] = i

\* for index in org_list: self._ask_user_and_update_record(index)
edit_all(rows, org_list, answers) ==
    [i \in 1..Len(rows) |->
       IF in_list(org_list, i) THEN apply_edit(rows[i], answers[i]) ELSE rows[i]]

upsert_found(org_name, answers, found) ==
    /\ IF found = <<>>
       THEN /\ Len(table) < MaxRows
            /\ table' = edit_all(Append(table, placeholder(org_name, today)),
                                 <<Len(table) + 1>>, answers)
            /\ lastCall' = [org |-> org_name, org_list |-> <<Len(table) + 1>>,
                            appended |-> TRUE]
            /\ dirty' = (dirty \/ edit_dirties(answers[Len(table) + 1]))
       ELSE /\ table' = edit_all(table, found, answers)
            /\ lastCall' = [org |-> org_name, org_list |-> found, appended |-> FALSE]
            /\ dirty' = (dirty \/ \E k \in 1..Len(found) :
                                     edit_dirties(answers[found[k]]))

\* PasswordManager.update_matching_orgs, with the user's answer for each record
update_matching_orgs(org_name, answers) ==
    /\ pc = "ready"
    /\ upsert_found(org_name, answers, extract_record(table, org_name))
    /\ UNCHANGED <<pc, fileExists, file, password, err, broker, entropy, today,
                   prior, sealedBy, written, persisted, selftest_vars>>

\* PasswordManager.write_updated_table
write_updated_table ==
    /\ pc = "ready"
    /\ begin_persist(password, table)
    /\ UNCHANGED <<fileExists, file, password, table, dirty, today, sealedBy,
                   written, lastCall, selftest_vars>>

\* CryptIOBroker.close, 'w' mode: open(self._dbfilename, mode='wb')
close_open ==
    /\ pc = "close"
    /\ fileExists' = TRUE
    /\ file' = <<>>
    /\ sealedBy' = NoPw
    /\ pc' = "close_opened"
    /\ UNCHANGED <<password, table, dirty, err, broker, entropy, today, prior,
                   written, persisted, lastCall, selftest_vars>>

\* CryptIOBroker.close: encrypt the buffer, write the salt
close_write_salt ==
    /\ pc = "close_opened"
    /\ entropy' = entropy + 1
    /\ file' = file \o close_salt(broker)
    /\ pc' = "close_salted"
    /\ UNCHANGED <<fileExists, password, table, dirty, err, broker, today, prior,
                   sealedBy, written, persisted, lastCall, selftest_vars>>

\* CryptIOBroker.close: write the token, close the file and the buffer
close_write_data ==
    /\ pc = "close_salted"
    /\ file' = file \o close_bindata(broker, entropy)
    /\ written' = Append(written, SubSeq(file', 1, SALT_LEN))
    /\ sealedBy' = password
    /\ broker' = NoBroker
    /\ pc' = IF err = "none" THEN "ready" ELSE "exit"
    /\ UNCHANGED <<fileExists, password, table, dirty, err, entropy, today, prior,
                   persisted, lastCall, selftest_vars>>

\* where an interrupted close() may leave the file: nothing flushed, the salt
\* flushed, or all but the last byte of the blob
crash_cuts(full) == {SubSeq(full, 1, n) : n \in {0, SALT_LEN, Len(full) - 1}}

\* the process is killed while close() runs
Crash ==
    /\ pc \in {"close", "close_opened", "close_salted"}
    /\ \/ /\ pc \in {"close", "close_opened"}
          /\ UNCHANGED file
       \/ /\ pc = "close_salted"
          /\ file' \in crash_cuts(file \o close_bindata(broker, entropy))
    /\ pc' = "dead"
    /\ broker' = NoBroker
    /\ UNCHANGED <<fileExists, password, table, dirty, err, entropy, today, prior,
                   sealedBy, written, persisted, lastCall, selftest_vars>>

\* main returns
Exit ==
    /\ pc = "ready"
    /\ pc' = "exit"
    /\ UNCHANGED <<fileExists, file, password, table, dirty, err, broker, entropy,
                   today, prior, sealedBy, written, persisted, lastCall,
                   selftest_vars>>

\* the program is started again
Restart ==
    /\ pc \in {"exit", "dead"}
    /\ pc' = "start"
    /\ password' = NoPw
    /\ table' = <<>>
    /\ dirty' = FALSE
    /\ err' = "none"
    /\ lastCall' = NoCall
    /\ UNCHANGED <<fileExists, file, broker, entropy, today, prior, sealedBy,
                   written, persisted, selftest_vars>>

\* the date changes
Midnight ==
    /\ today < MaxDay
    /\ today' = today + 1
    /\ UNCHANGED <<pc, fileExists, file, password, table, dirty, err, broker,
                   entropy, prior, sealedBy, written, persisted, lastCall,
                   selftest_vars>>

Next ==
    \/ \E pw \in Passwords : PM_init(pw)
    \/ write_updated_table
    \/ close_open
    \/ close_write_salt
    \/ close_write_data
    \/ Crash
    \/ Exit
    \/ Restart

Spec == Init /\ [][Next]_vars

----------------------------------------------------------------------------
(* The record table in memory: one run of the program, no persist *)

InitUpsert ==
    /\ InitWith({Sealed(HeaderText), Sealed(HeaderText \o FullRowText)}, "start", 0)
    /\ wlines = <<>>
    /\ rlines = <<>>

NextUpsert ==
    \/ PM_init(P1)
    \/ \E n \in OrgNames : \E answers \in [1..MaxRows -> Edits] :
          update_matching_orgs(n, answers)
    \/ Midnight
    \/ Exit
    \/ Restart

SpecUpsert == InitUpsert /\ [][NextUpsert]_vars

----------------------------------------------------------------------------
(* CryptIOBroker.selftest: lines written through a 'w' broker and read back *)
(* through an 'r' broker, here for any lines and either password           *)

\* lines a behaviour writes
MaxLines == 2

\* "hello\n", "bye\n", "é,\r\n", "\n"
SelfLines ==
    { <<104,101,108,108,111,10>>, <<98,121,101,10>>, <<233,44,13,10>>, <<10>> }

LineLists == UNION { [1..n -> SelfLines] : n \in 0..MaxLines }

\* io.StringIO.readlines: the buffer cut after each "\n"
line_starts(text) == {i \in 1..Len(text) : i = 1 \/ text[i - 1] = LF}

line_at(text, i) ==
    SubSeq(text, i,
           IF \E j \in i..Len(text) : text[j] = LF
           THEN CHOOSE j \in i..Len(text) :
                   text[j] = LF /\ \A k \in i..(j - 1) : text[k] # LF
           ELSE Len(text))

nth_start(starts, n) == CHOOSE i \in starts : Cardinality({j \in starts : j < i}) = n - 1

lines_from(text, starts) ==
    [n \in 1..Cardinality(starts) |-> line_at(text, nth_start(starts, n))]

readlines(text) == lines_from(text, line_starts(text))

InitBroker ==
    /\ pc = "selftest"
    /\ fileExists = TRUE
    /\ file = <<>>
    /\ sealedBy = NoPw
    /\ password \in Passwords
    /\ wlines \in LineLists
    /\ rlines = <<>>
    /\ table = <<>>
    /\ dirty = FALSE
    /\ err = "none"
    /\ broker = NoBroker
    /\ entropy = 0
    /\ today = 0
    /\ prior = NoStore
    /\ written = <<>>
    /\ persisted = <<>>
    /\ lastCall = NoCall

written_through(b) == close_salt(b) \o close_bindata(b, entropy + 2)

\* wbroker = CryptIOBroker(password, 'w', tname); writelines; close
selftest_write ==
    /\ pc = "selftest"
    /\ file' = written_through([broker_open_w(password, entropy + 1)
                                  EXCEPT !.buf = Flatten(wlines)])
    /\ entropy' = entropy + 2
    /\ sealedBy' = password
    /\ pc' = "written"
    /\ UNCHANGED <<fileExists, password, table, dirty, err, broker, today, prior,
                   written, persisted, lastCall, wlines, rlines>>

read_back(b) ==
    /\ err' = b.err
    /\ rlines' = IF b.err = "none" THEN readlines(b.text) ELSE <<>>

\* rbroker = CryptIOBroker(password, 'r', tname); readlines; close
selftest_read(pw) ==
    /\ pc = "written"
    /\ password' = pw
    /\ read_back(broker_open_r(pw, file))
    /\ pc' = "read"
    /\ UNCHANGED <<fileExists, file, table, dirty, broker, entropy, today, prior,
                   sealedBy, written, persisted, lastCall, wlines>>

\* os.unlink(tname)
selftest_unlink ==
    /\ pc = "read"
    /\ err = "none"
    /\ fileExists' = FALSE
    /\ file' = <<>>
    /\ pc' = "unlinked"
    /\ UNCHANGED <<password, table, dirty, err, broker, entropy, today, prior,
                   sealedBy, written, persisted, lastCall, wlines, rlines>>

NextBroker ==
    \/ selftest_write
    \/ \E pw \in Passwords : selftest_read(pw)
    \/ selftest_unlink

SpecBroker == InitBroker /\ [][NextBroker]_vars

----------------------------------------------------------------------------
(* Properties *)

OnDisk == [exists |-> fileExists, bytes |-> file]

\* C1: a persist that is interrupted leaves at the database path either the
\* complete blob that was there before or the complete new blob
C1_PersistAtomic ==
    pc = "dead" =>
        \/ OnDisk = prior
        \/ /\ fileExists
           /\ broker_open_r(password, file)
                = [err |-> "none", text |-> render_table(persisted).text]

\* C2: what is written through a 'w' broker and closed is read back, line for
\* line, through an 'r' broker given the same password
C2_SealOpenInverse ==
    (pc = "read" /\ password = sealedBy) => (err = "none" /\ rlines = wlines)

C2_Witness ==
    /\ pc = "read"
    /\ password = sealedBy
    /\ Len(wlines) = 2
    /\ wlines[1] = <<233,44,13,10>>

\* C3: opening a sealed file with another password than the one that sealed
\* it raises InvalidToken, PasswordManager.__init__ raises it again, and no
\* record is loaded
C3_WrongPassphrase ==
    (sealedBy # NoPw /\ password # NoPw /\ password # sealedBy) =>
        (pc = "exit" /\ err = "InvalidToken" /\ table = <<>>)

C3_Witness ==
    /\ pc = "exit"
    /\ err = "InvalidToken"
    /\ written # <<>>
    /\ sealedBy # NoPw
    /\ password # sealedBy

\* C4: opening a file shorter than 16 bytes fails with CorruptStore, an error
\* other than the InvalidToken of a wrong password
C4_CorruptStore ==
    (pc = "exit" /\ err # "none" /\ fileExists /\ Len(file) < SALT_LEN) =>
        err = "CorruptStore"

\* the file is the one the first run wrote, and the password is the one that
\* wrote it
FirstRunDone == ~prior.exists /\ written # <<>> /\ sealedBy = password

\* C5: with no database file, PasswordManager.__init__ raises nothing and
\* ends with no records and a sealed file holding only the header, which the
\* same password opens to an empty table; a run that ends leaves a file
C5_FirstRun ==
    /\ FirstRunDone =>
          /\ pc \in {"ready", "exit"}
          /\ err = "none"
          /\ table = <<>>
          /\ fileExists
          /\ broker_open_r(password, file) = [err |-> "none", text |-> HeaderText]
    /\ pc = "exit" => fileExists

C5_Witness == FirstRunDone /\ pc = "ready" /\ Len(written) = 1 /\ entropy = 2

\* C6: a table that was loaded, serialized by write_updated_table and loaded
\* again is the table that was serialized
C6_RoundTrip ==
    (pc = "ready" /\ written # <<>> /\ sealedBy = password) => table = persisted

\* C7: no table is returned whose data rows do not all have the header's
\* nine fields
C7_FieldCount ==
    pc = "ready" =>
        \A i \in 1..Len(table) :
            /\ table[i].rest = <<>>
            /\ \A k \in 1..NFields : table[i].vals[k] # PyNone

\* update_matching_orgs was called again with the name of the call before,
\* which had appended a record whose ORGANIZATION is still that name
SecondUpsert ==
    /\ lastCall.appended
    /\ lastCall' # lastCall
    /\ lastCall'.org = lastCall.org
    /\ table[lastCall.org_list[1]].vals[ORGANIZATION] = lastCall.org

\* the record update_matching_orgs creates for the name n on day d
NewRecord(r, n, d) ==
    /\ r.rest = <<>>
    /\ r.vals[ORGANIZATION] = n
    /\ r.vals[DATE] = isoformat(d)
    /\ \A k \in (1..NFields) \ {ORGANIZATION, DATE} : r.vals[k] = NoneText

\* a call that matched nothing appends one record at the end, the new record
\* of its name as long as the user typed nothing into it
MissAppendsOne ==
    (lastCall' # lastCall /\ lastCall'.appended) =>
        /\ Len(table') = Len(table) + 1
        /\ SubSeq(table', 1, Len(table)) = table
        /\ lastCall'.org_list = <<Len(table')>>
        /\ ~dirty' => NewRecord(table'[Len(table')], lastCall'.org, today)

\* the second call matches the record the first appended, and appends nothing
FindsAppended ==
    /\ ~lastCall'.appended
    /\ lastCall'.org_list = lastCall.org_list
    /\ Len(table') = Len(table)

\* C8: for any organization name, an upsert that matches nothing appends one
\* record, dated today, at the end; the next upsert of the same name matches
\* that record alone and appends nothing
C8_UpsertIdempotent ==
    [][MissAppendsOne /\ (SecondUpsert => FindsAppended)]_vars

\* C8, amended: the same, for the names that as a pattern are found in
\* themselves
C8_UpsertSelfMatching ==
    [][ /\ MissAppendsOne
        /\ (SecondUpsert /\ re_search(lastCall.org, lastCall.org)) => FindsAppended
      ]_vars

\* a second upsert of "AB" has found the record the first one appended
C8_Witness ==
    /\ pc = "ready"
    /\ lastCall = [org |-> <<65,66>>, org_list |-> <<Len(table)>>, appended |-> FALSE]
    /\ Len(table) >= 1
    /\ NewRecord(table[Len(table)], <<65,66>>, 0)

\* C9: the blobs close() has written carry salts of 16 bytes, no two the
\* same, and the salt in the file is the one its key was derived from: the
\* password that sealed the file opens it
C9_SaltFreshness ==
    /\ \A i \in 1..Len(written) :
          /\ Len(written[i]) = SALT_LEN
          /\ \A j \in 1..Len(written) : i # j => written[i] # written[j]
    /\ (written # <<>> /\ sealedBy # NoPw) =>
          /\ SubSeq(file, 1, SALT_LEN) = written[Len(written)]
          /\ broker_open_r(sealedBy, file).err = "none"

C9_Witness ==
    /\ Len(written) = 3
    /\ pc = "ready"
    /\ persisted = <<>>
    /\ sealedBy = password

\* C10: PasswordManager.__init__ on an existing file leaves its bytes as they
\* are, whether the open fails or not, and starts no write
C10_FailedOpenKeepsFile ==
    [][ (pc = "start" /\ fileExists) =>
           (fileExists' /\ file' = file /\ pc' \in {"ready", "exit"}) ]_vars

C10_Witness ==
    /\ pc = "exit"
    /\ err = "InvalidToken"
    /\ sealedBy = NoPw
    /\ Len(file) > SALT_LEN

====
